---- MODULE Spec2Model ----
(***************************************************************************)
(* Crawl orchestration of app.py: the Flask handlers, the Celery tasks and *)
(* the Redis state store of one category session.                          *)
(*                                                                         *)
(* Every Redis command, every .delay() and every file operation is one     *)
(* atomic step.  The Celery worker pool is a bag of running task frames of *)
(* at most PoolSize elements; the broker queue is a bag of task messages.  *)
(*                                                                         *)
(* Spec is the whole service for the session of one key, CrawlSpec the     *)
(* same without the poll handler, FairSpec CrawlSpec with a watcher that   *)
(* keeps being scheduled, and KeySpec the derivation of the session key    *)
(* from the category name of a trigger.                                    *)
(***************************************************************************)
EXTENDS Bags, FiniteSets, Integers, Sequences, TLC

VARIABLES
    processing,   \* Redis set  '{category}:processing_urls'
    finished,     \* Redis set  '{category}:finished_urls'
    courses,      \* Redis hash '{category}:courses' : url -> json string
    csv,          \* files/{category}.csv : whether it exists and the rows written
    queue,        \* broker queue: bag of task messages [kind, url]
    running,      \* worker pool: bag of frames of the tasks being executed
    triggers,     \* number of POST /category requests served so far
    pollpc,       \* position of the GET /category/<category> handler
    answer,       \* what the last completed poll answered
    dispatched,   \* history: bag of the urls handed to .delay() as crawl tasks
    ended,        \* history: urls for which a crawl task execution has ended
    failed,       \* history: urls whose fetch failed permanently
    extracted,    \* history: urls for which get_course_data returned a record
    name,         \* request.form['category'] of the trigger being served
    key           \* what parse_category_name made of it

vars == <<processing, finished, courses, csv, queue, running, triggers,
          pollpc, answer, dispatched, ended, failed, extracted, name, key>>

-----------------------------------------------------------------------------
(* Bounds of the model *)

\* size of the Celery worker pool (deployment parameter)
PoolSize == 2
\* number of POST /category requests
MaxTriggers == 2
\* the watcher's timeout, counted in sleep(1) ticks (30 * 60 in the source)
MaxWaitTicks == 2

-----------------------------------------------------------------------------
(* The crawled site.  A url is the sequence of its tokens, "/" being a     *)
(* token of its own: "/learn/l1" is << "/", "learn", "/", "l1" >>.         *)

Root  == << "/", "browse", "/", "cat" >>
B1    == << "/", "specializations", "/", "b1" >>
L1    == << "/", "learn", "/", "l1" >>
L2    == << "/", "learn", "/", "l2" >>
About == << "/", "about" >>
AbsL2 == << "https:", "/", "/", "www.coursera.org", "/", "learn", "/", "l2" >>

Urls == {Root, B1, L1, L2, About, AbsL2}

\* what the site serves at a url: the title, the breadcrumb label and the
\* hrefs of the anchors the task enumerates, in document order
Site(url) ==
    CASE url = Root -> [label |-> "", title |-> "cat", hrefs |-> << B1, L1, About, AbsL2 >>]
      [] url = B1   -> [label |-> "", title |-> "b1", hrefs |-> << L1, L2 >>]
      [] url = L1   -> [label |-> "Cat", title |-> "l1", hrefs |-> << L2 >>]
      [] url = L2   -> [label |-> "Cat", title |-> "l2", hrefs |-> << >>]
      [] OTHER      -> [label |-> "", title |-> "", hrefs |-> << >>]

\* the markup a fetch of the url may find: "full" has every node
\* get_course_data selects, "nomatch" lacks one
Shapes(url) == IF url \in {B1, L1} THEN {"full", "nomatch"} ELSE {"nomatch"}

\* soup_from_url: the pages a successful fetch may return
soup_from_url(url) ==
    {[shape |-> sh, label |-> Site(url).label, title |-> Site(url).title,
      hrefs |-> Site(url).hrefs] : sh \in Shapes(url)}

None == "None"
\* the export file: absent, or present with the rows written to it
NoFile == [exists |-> FALSE, rows |-> << >>]
File(rows) == [exists |-> TRUE, rows |-> rows]

\* get_course_data: << the record >>, or << >> (None) when an expected node
\* is missing (IndexError)
get_course_data(soup) ==
    IF soup.shape = "full"
    THEN << [category |-> soup.label, name |-> soup.title] >>
    ELSE << >>

\* json.dumps / json.loads of a record
json_dumps(data) == << "json", data >>
json_loads(string) == string[2]

-----------------------------------------------------------------------------
(* str.split('/') on a token sequence *)

RECURSIVE SplitFrom(_, _, _)
\* parts collected so far, the part being read, the tokens left
SplitFrom(parts, cur, rest) ==
    IF rest = << >> THEN Append(parts, cur)
    ELSE IF Head(rest) = "/"
         THEN SplitFrom(Append(parts, cur), "", Tail(rest))
         ELSE SplitFrom(parts, Head(rest), Tail(rest))

split(link_url) == SplitFrom(<< >>, "", link_url)

\* parse_link's classification: the task the link is dispatched as
Classify(link_url) ==
    LET url_parts == split(link_url) IN
    IF Len(url_parts) < 3 THEN None
    ELSE IF url_parts[2] = "learn" THEN "load_course"
    ELSE IF url_parts[2] \in {"specializations", "professional-certificates"}
         THEN "load_and_collect_from_page"
    ELSE None

-----------------------------------------------------------------------------
(* Redis *)

\* set_processing_url with its sadd issued on another key
set_processing_url_otherkey(p, url) == p

set_processing_url(p, url) == p \cup {url}

\* set_finished_url with its sadd issued on another key
set_finished_url_sadd_otherkey(f, url) == f

\* the two commands of set_finished_url
set_finished_url_sadd(f, url) == f \cup {url}

\* set_finished_url with its srem issued on another key
set_finished_url_srem_otherkey(p, url) == p

set_finished_url_srem(p, url) == p \ {url}

has_unfinished_urls == processing # {}
has_finished_urls == finished # {}
\* has_courses answering True whatever the hash holds
has_courses_always == TRUE

has_courses == DOMAIN courses # {}

\* save_course_data with the course name as the field of the hash
save_course_data_byname(c, url, course_data) ==
    [u \in DOMAIN c \cup {<< course_data.name >>} |->
        IF u = << course_data.name >> THEN json_dumps(course_data) ELSE c[u]]

save_course_data(c, url, course_data) ==
    [u \in DOMAIN c \cup {url} |-> IF u = url THEN json_dumps(course_data) ELSE c[u]]

get_courses == [u \in DOMAIN courses |-> json_loads(courses[u])]

-----------------------------------------------------------------------------
(* Worker pool and broker *)

CrawlKinds == {"collect_from_category", "load_and_collect_from_page", "load_course"}
Watcher == "collect_and_save_to_csv"

Msg(kind, url) == [kind |-> kind, url |-> url]

\* the frame of a task being executed: its arguments, its position and its locals
Frame(kind, url, pc, hrefs, course_data) ==
    [kind |-> kind, url |-> url, pc |-> pc, hrefs |-> hrefs, course_data |-> course_data,
     elapsed |-> 0, snap |-> << >>, reason |-> None]

Put(bag, x) == bag (+) SetToBag({x})
Take(bag, x) == bag (-) SetToBag({x})
Step(t, n) == Put(Take(running, t), n)

Frames == BagToSet(running)

RECURSIVE Skip(_)
\* the hrefs left once parse_link has returned at once for the leading ones it
\* dispatches nothing for
Skip(hrefs) ==
    IF hrefs # << >> /\ Classify(Head(hrefs)) = None THEN Skip(Tail(hrefs)) ELSE hrefs

\* where a task continues once the hrefs before rest have been handled
AfterLink(rest) == IF rest = << >> THEN "finish" ELSE "links"

Init ==
    /\ processing = {}
    /\ finished = {}
    /\ courses = << >>
    /\ csv = NoFile
    /\ queue = EmptyBag
    /\ running = EmptyBag
    /\ triggers = 0
    /\ pollpc = "idle"
    /\ answer = None
    /\ dispatched = EmptyBag
    /\ ended = {}
    /\ failed = {}
    /\ extracted = {}
    \* the key of the session is fixed: no name is being normalized
    /\ name = << >>
    /\ key = << >>

-----------------------------------------------------------------------------
(* Flask handlers *)

\* os.path.exists(csv_path) answering False whatever the disk holds
os_path_exists_never(file) == FALSE

\* os.path.exists(csv_path)
os_path_exists(file) == file.exists

\* POST /category: start the watcher task unless the export exists
post_category ==
    /\ triggers < MaxTriggers
    /\ triggers' = triggers + 1
    /\ queue' = IF ~os_path_exists(csv) THEN Put(queue, Msg(Watcher, Root)) ELSE queue
    /\ UNCHANGED <<processing, finished, courses, csv, running, pollpc, answer,
                   dispatched, ended, failed, extracted, name, key>>

\* GET /category/<category>: os.path.exists(csv_path)
category_exists ==
    /\ pollpc = "idle"
    /\ IF os_path_exists(csv)
       THEN answer' = "send_file" /\ pollpc' = "idle"
       ELSE answer' = None /\ pollpc' = "has_finished_urls"
    /\ UNCHANGED <<processing, finished, courses, csv, queue, running, triggers,
                   dispatched, ended, failed, extracted, name, key>>

\* ... elif has_finished_urls(category)
category_has_finished_urls ==
    /\ pollpc = "has_finished_urls"
    /\ IF has_finished_urls
       THEN answer' = None /\ pollpc' = "has_unfinished_urls"
       ELSE answer' = "wait" /\ pollpc' = "idle"
    /\ UNCHANGED <<processing, finished, courses, csv, queue, running, triggers,
                   dispatched, ended, failed, extracted, name, key>>

\* ... and not has_unfinished_urls(category)
category_has_unfinished_urls ==
    /\ pollpc = "has_unfinished_urls"
    /\ IF ~has_unfinished_urls
       THEN answer' = None /\ pollpc' = "has_courses"
       ELSE answer' = "wait" /\ pollpc' = "idle"
    /\ UNCHANGED <<processing, finished, courses, csv, queue, running, triggers,
                   dispatched, ended, failed, extracted, name, key>>

\* ... and not has_courses(category): abort(404), else the "please wait" page
category_has_courses ==
    /\ pollpc = "has_courses"
    /\ answer' = IF ~has_courses THEN "404" ELSE "wait"
    /\ pollpc' = "idle"
    /\ UNCHANGED <<processing, finished, courses, csv, queue, running, triggers,
                   dispatched, ended, failed, extracted, name, key>>

-----------------------------------------------------------------------------
(* collect_and_save_to_csv: seeding, completion watcher and aggregator *)

\* the wait loop with its break left out
TimedOut_never(elapsed) == FALSE

\* the break condition of the wait loop
TimedOut(elapsed) == elapsed > MaxWaitTicks

\* a worker takes the watcher task from the broker
start_collect_and_save_to_csv ==
    \E m \in BagToSet(queue) :
        /\ m.kind = Watcher
        /\ BagCardinality(running) < PoolSize
        /\ queue' = Take(queue, m)
        /\ running' = Put(running, Frame(Watcher, m.url, "set_processing_url", << >>, << >>))
        /\ UNCHANGED <<processing, finished, courses, csv, triggers, pollpc, answer,
                       dispatched, ended, failed, extracted, name, key>>

\* set_processing_url(category, url)
seed_set_processing_url ==
    \E t \in Frames :
        /\ t.kind = Watcher /\ t.pc = "set_processing_url"
        /\ processing' = set_processing_url(processing, t.url)
        /\ running' = Step(t, [t EXCEPT !.pc = "delay"])
        /\ UNCHANGED <<finished, courses, csv, queue, triggers, pollpc, answer,
                       dispatched, ended, failed, extracted, name, key>>

\* collect_from_category.delay(category, url)
seed_delay ==
    \E t \in Frames :
        /\ t.kind = Watcher /\ t.pc = "delay"
        /\ queue' = Put(queue, Msg("collect_from_category", t.url))
        /\ dispatched' = Put(dispatched, t.url)
        /\ running' = Step(t, [t EXCEPT !.pc = "while"])
        /\ UNCHANGED <<processing, finished, courses, csv, triggers, pollpc, answer,
                       ended, failed, extracted, name, key>>

\* one turn of the wait loop: while has_unfinished_urls(category): sleep(1);
\* if time() - start_time > timeout: break
wait_loop ==
    \E t \in Frames :
        /\ t.kind = Watcher /\ t.pc = "while"
        /\ t.elapsed <= MaxWaitTicks
        /\ running' = Step(t, IF ~has_unfinished_urls
                              THEN [t EXCEPT !.pc = "get_courses", !.reason = "drained"]
                              ELSE IF TimedOut(t.elapsed + 1)
                              THEN [t EXCEPT !.elapsed = t.elapsed + 1,
                                             !.pc = "get_courses", !.reason = "timeout"]
                              ELSE [t EXCEPT !.elapsed = t.elapsed + 1])
        /\ UNCHANGED <<processing, finished, courses, csv, queue, triggers, pollpc,
                       answer, dispatched, ended, failed, extracted, name, key>>

\* courses = get_courses(category)
aggregate_get_courses ==
    \E t \in Frames :
        /\ t.kind = Watcher /\ t.pc = "get_courses"
        /\ running' = Step(t, [t EXCEPT !.pc = "save_to_csv", !.snap = get_courses])
        /\ UNCHANGED <<processing, finished, courses, csv, queue, triggers, pollpc,
                       answer, dispatched, ended, failed, extracted, name, key>>

Header == << "Category Name", "Course Name" >>
Row(course) == << course.category, course.name >>

\* the sequences that list every element of S once
Orderings(S) ==
    {f \in [1..Cardinality(S) -> S] : \A i, j \in 1..Cardinality(S) : f[i] = f[j] => i = j}

\* the export opened for appending: the rows follow what the file held
open_append(file, rows) == File(file.rows \o rows)

\* open(csv_path, 'w') and the writes: the file holds the rows written
open_write(file, rows) == File(rows)

\* the file save_to_csv leaves when courses.values() comes in the given order
csv_writer(file, snap, order) ==
    open_write(file, << Header >> \o [i \in 1..Len(order) |-> Row(snap[order[i]])])

\* save_to_csv: the header, then one row per record in the order of the dict
save_to_csv ==
    \E t \in Frames :
        /\ t.kind = Watcher /\ t.pc = "save_to_csv"
        /\ \E order \in Orderings(DOMAIN t.snap) : csv' = csv_writer(csv, t.snap, order)
        /\ running' = Take(running, t)
        /\ UNCHANGED <<processing, finished, courses, queue, triggers, pollpc, answer,
                       dispatched, ended, failed, extracted, name, key>>

-----------------------------------------------------------------------------
(* collect_from_category, load_and_collect_from_page, load_course *)

\* the record the task extracts from its page: collect_from_category does
\* not call get_course_data
TaskData(kind, soup) ==
    IF kind = "collect_from_category" THEN << >> ELSE get_course_data(soup)

\* a leaf task that walks the anchors of its page as a branch task does
TaskHrefs_recursing(kind, soup) == Skip(soup.hrefs)

\* the links the task will hand to parse_link: load_course has no such loop
TaskHrefs(kind, soup) ==
    IF kind = "load_course" THEN << >> ELSE Skip(soup.hrefs)

\* where a crawl task stands once its page is fetched and parsed
AfterFetch(kind, soup) ==
    IF TaskData(kind, soup) # << >> THEN "save_course_data"
    ELSE IF TaskHrefs(kind, soup) # << >> THEN "links"
    ELSE "finish"

\* a worker takes a crawl task from the broker and soup_from_url returns the page
start_task ==
    \E m \in BagToSet(queue) :
        /\ m.kind \in CrawlKinds
        /\ BagCardinality(running) < PoolSize
        /\ queue' = Take(queue, m)
        /\ \E soup \in soup_from_url(m.url) :
               /\ running' = Put(running,
                              Frame(m.kind, m.url, AfterFetch(m.kind, soup),
                                    TaskHrefs(m.kind, soup),
                                    TaskData(m.kind, soup)))
               /\ extracted' = IF TaskData(m.kind, soup) # << >>
                               THEN extracted \cup {m.url} ELSE extracted
        /\ UNCHANGED <<processing, finished, courses, csv, triggers, pollpc, answer,
                       dispatched, ended, failed, name, key>>

\* a worker takes a crawl task and soup_from_url raises: the task ends there
start_task_fetch_fails ==
    \E m \in BagToSet(queue) :
        /\ m.kind \in CrawlKinds
        /\ BagCardinality(running) < PoolSize
        /\ queue' = Take(queue, m)
        /\ ended' = ended \cup {m.url}
        /\ failed' = failed \cup {m.url}
        /\ UNCHANGED <<processing, finished, courses, csv, running, triggers, pollpc,
                       answer, dispatched, extracted, name, key>>

\* if course_data: save_course_data(category, url, course_data)
task_save_course_data ==
    \E t \in Frames :
        /\ t.kind \in CrawlKinds /\ t.pc = "save_course_data"
        /\ courses' = save_course_data(courses, t.url, t.course_data[1])
        /\ running' = Step(t, [t EXCEPT !.pc = AfterLink(t.hrefs)])
        /\ UNCHANGED <<processing, finished, csv, queue, triggers, pollpc, answer,
                       dispatched, ended, failed, extracted, name, key>>

\* parse_link: set_processing_url(category, link_url)
parse_link_set_processing_url ==
    \E t \in Frames :
        /\ t.kind \in CrawlKinds /\ t.pc = "links"
        /\ processing' = set_processing_url(processing, Head(t.hrefs))
        /\ running' = Step(t, [t EXCEPT !.pc = "delay"])
        /\ UNCHANGED <<finished, courses, csv, queue, triggers, pollpc, answer,
                       dispatched, ended, failed, extracted, name, key>>

\* parse_link: load_course.delay / load_and_collect_from_page.delay
parse_link_delay ==
    \E t \in Frames :
        /\ t.kind \in CrawlKinds /\ t.pc = "delay"
        /\ queue' = Put(queue, Msg(Classify(Head(t.hrefs)), Head(t.hrefs)))
        /\ dispatched' = Put(dispatched, Head(t.hrefs))
        /\ running' = Step(t, [t EXCEPT !.hrefs = Skip(Tail(t.hrefs)),
                                        !.pc = AfterLink(Skip(Tail(t.hrefs)))])
        /\ UNCHANGED <<processing, finished, courses, csv, triggers, pollpc, answer,
                       ended, failed, extracted, name, key>>

\* set_finished_url: sadd finished_urls
finish_sadd ==
    \E t \in Frames :
        /\ t.kind \in CrawlKinds /\ t.pc = "finish"
        /\ finished' = set_finished_url_sadd(finished, t.url)
        /\ running' = Step(t, [t EXCEPT !.pc = "srem"])
        /\ UNCHANGED <<processing, courses, csv, queue, triggers, pollpc, answer,
                       dispatched, ended, failed, extracted, name, key>>

\* set_finished_url: srem processing_urls; the task returns
finish_srem ==
    \E t \in Frames :
        /\ t.kind \in CrawlKinds /\ t.pc = "srem"
        /\ processing' = set_finished_url_srem(processing, t.url)
        /\ running' = Take(running, t)
        /\ ended' = ended \cup {t.url}
        /\ UNCHANGED <<finished, courses, csv, queue, triggers, pollpc, answer,
                       dispatched, failed, extracted, name, key>>

-----------------------------------------------------------------------------

\* the handlers of GET /category/<category>
PollNext ==
    \/ category_exists
    \/ category_has_finished_urls
    \/ category_has_unfinished_urls
    \/ category_has_courses

\* the trigger and the Celery tasks
CrawlNext ==
    \/ post_category
    \/ start_collect_and_save_to_csv
    \/ seed_set_processing_url
    \/ seed_delay
    \/ wait_loop
    \/ aggregate_get_courses
    \/ save_to_csv
    \/ start_task
    \/ start_task_fetch_fails
    \/ task_save_course_data
    \/ parse_link_set_processing_url
    \/ parse_link_delay
    \/ finish_sadd
    \/ finish_srem

Next == CrawlNext \/ PollNext

Spec == Init /\ [][Next]_vars

\* the crawl without the polls, which only read
CrawlSpec == Init /\ [][CrawlNext]_vars

-----------------------------------------------------------------------------
(* Scheduling: a worker process that executes the watcher keeps executing it *)

WatcherStep ==
    \/ wait_loop
    \/ aggregate_get_courses
    \/ save_to_csv

FairSpec == Init /\ [][CrawlNext]_vars /\ WF_vars(WatcherStep)

-----------------------------------------------------------------------------
(* State predicates *)

WatcherFrames == {t \in Frames : t.kind = Watcher}
CrawlFrames == {t \in Frames : t.kind \in CrawlKinds}
CrawlQueued == {m \in BagToSet(queue) : m.kind \in CrawlKinds}

\* no crawl task of the session is queued or executing
NoCrawlTask == CrawlQueued = {} /\ CrawlFrames = {}

\* a watcher is in its wait loop
Waiting == \E t \in WatcherFrames : t.pc = "while"

\* a watcher has registered the root url and not yet handed it to the broker
Seeding == \E t \in WatcherFrames : t.pc = "delay"

\* the links the crawl tasks discover
Links == Urls \ {Root}

-----------------------------------------------------------------------------
(* Claims *)

\* C1: no link a crawl task discovers is handed to the broker twice: of all
\* the dispatch attempts on one url, at most one enqueues a task.
C1_NoLinkDispatchedTwice ==
    \A u \in Links : CopiesIn(u, dispatched) <= 1

\* C2: no url is in the processing set and in the finished set at the same
\* time, each Redis command being one step.
C2_ProcessingFinishedDisjoint ==
    processing \cap finished = {}

\* C3: finished is terminal: a discovered link that is finished and no longer
\* processing is not put back into the processing set by any step.
C3_FinishedIsTerminal ==
    [][\A u \in Links : (u \in finished /\ u \notin processing) => u \notin processing']_vars

\* C4: a url whose crawl task has ended, by returning or by a failed fetch,
\* is in the finished set and no longer in the processing set.
C4_EndedTaskMarkedFinished ==
    \A u \in ended : u \in finished /\ u \notin processing

\* C5: when a watcher has left its wait loop on observing an empty processing
\* set, no crawl task of the session is queued or executing.
C5_EmptyObservedMeansDrained ==
    (\E t \in WatcherFrames : t.reason = "drained") => NoCrawlTask

\* C6: drain completeness: in an execution in which no task was cut short,
\* once no crawl task is queued or executing (and no url is registered but
\* not yet handed to the broker), the processing set is empty.
C6_DrainCompleteness ==
    (failed = {} /\ NoCrawlTask /\ ~Seeding) => processing = {}

\* C6, its case: the crawl has drained after every page was crawled, L1
\* having been discovered and dispatched twice.
C6_Witness ==
    /\ failed = {} /\ NoCrawlTask /\ ~Seeding
    /\ CopiesIn(L1, dispatched) = 2
    /\ finished = {Root, B1, L1, L2}
    /\ processing = {}

\* C7: the watcher always terminates: it never sleeps more than the timeout
\* plus one tick, it leaves its wait loop, and the aggregator then writes the
\* export, also while a url stays in the processing set for ever.
C7_WatcherTerminates ==
    /\ [](\A t \in WatcherFrames :
             /\ t.elapsed <= MaxWaitTicks + 1
             /\ t.pc = "while" => t.elapsed <= MaxWaitTicks)
    /\ (Waiting ~> ~Waiting)
    /\ (Waiting ~> csv.exists)

\* C7, its case: the export was written after a timeout, a failed fetch
\* having left its url in the processing set.
C7_Witness ==
    /\ csv.exists
    /\ failed \cap processing # {}
    /\ WatcherFrames = {}

\* C8: waiting watchers never keep a queued crawl task from being executed:
\* it is never so that a crawl task is queued while every worker of the pool
\* is held by a watcher in its wait loop.
C8_WatchersLeaveAWorker ==
    ~ /\ CrawlQueued # {}
      /\ BagCardinality(running) = PoolSize
      /\ \A t \in Frames : t.kind = Watcher /\ t.pc = "while"

\* the rows of the records the store holds
StoredRows == {Row(json_loads(courses[u])) : u \in DOMAIN courses}
\* the data rows of the export
ExportRows == {csv.rows[i] : i \in 2..Len(csv.rows)}

\* C9: partial-failure tolerance: when some leaf fetch has failed for good, every
\* task has ended and the export is written, the export holds exactly the
\* records extracted by the tasks that succeeded.
C9_PartialFailureExport ==
    (failed # {} /\ failed \subseteq {L1, L2} /\ queue = EmptyBag /\ running = EmptyBag /\ csv.exists)
        => ExportRows = StoredRows

\* a crawl task of the session is queued or executing and no export exists
InProgress == ~csv.exists /\ ~NoCrawlTask

\* C10: a poll of a session in progress is never answered 'not found'.
C10_InProgressPollsPending ==
    [][(answer # "404" /\ answer' = "404") => ~InProgress]_vars


-----------------------------------------------------------------------------
\* C11: exported is terminal: a trigger (POST /category) received once the
\* export exists enqueues no watcher and no crawl task and leaves the
\* processing set, the finished set and the record mapping as they were, and
\* the poll the trigger redirects to serves the stored export.
C11_ExportedIsTerminal ==
    [][/\ (csv.exists /\ triggers' # triggers) =>
              /\ queue' = queue /\ running' = running /\ dispatched' = dispatched
              /\ processing' = processing /\ finished' = finished
              /\ courses' = courses /\ csv' = csv
       /\ (csv.exists /\ pollpc = "idle" /\ pollpc' # pollpc) => FALSE
       /\ (csv.exists /\ pollpc = "idle" /\ answer' # answer) => answer' = "send_file"]_vars

\* both triggers are spent, the second one on a session already exported:
\* the root was seeded once and nothing is queued or executing
C11_Witness ==
    /\ csv.exists /\ triggers = MaxTriggers
    /\ CopiesIn(Root, dispatched) = 1
    /\ queue = EmptyBag /\ running = EmptyBag
    /\ answer = "send_file"


\* the outcome the poll owes to a state of the store and of the export
PollOutcome ==
    IF csv.exists THEN "send_file"
    ELSE IF processing = {} /\ finished # {} /\ DOMAIN courses = {} THEN "404"
    ELSE "wait"

\* the store is still as the poll in progress has read it so far: no
\* export was there, and the processing set was empty if that has been read
StoreAsRead ==
    /\ pollpc # "idle" => ~csv.exists
    /\ pollpc = "has_courses" => processing = {}

\* C12: a poll answers on the state of the store at the time of the poll: the
\* export when it is present; otherwise 'not found' exactly when the processing
\* set is empty, the finished set is non-empty and no record is stored; and
\* 'still in progress' in every other case.
C12_PollOutcome ==
    [][(pollpc' = "idle" /\ <<pollpc, answer>>' # <<pollpc, answer>> /\ StoreAsRead)
           => answer' = PollOutcome]_vars

\* a poll has answered 'not found' on a drained session without a record
C12_Witness ==
    /\ answer = "404" /\ pollpc = "idle"
    /\ ~csv.exists /\ processing = {} /\ finished # {} /\ DOMAIN courses = {}


\* the session has drained: the root has been handed over and no crawl task
\* is queued or executing
Drained == dispatched # EmptyBag /\ NoCrawlTask /\ ~Seeding

RowCount(file, row) == Cardinality({i \in 2..Len(file.rows) : file.rows[i] = row})

\* the two files hold the same data rows as unordered collections
SameRows(f, g) ==
    /\ Len(f.rows) = Len(g.rows)
    /\ \A i \in 2..Len(f.rows) : RowCount(f, f.rows[i]) = RowCount(g, f.rows[i])

\* a watcher frame has taken the step from the given position
Stepped(t, pc) == t.pc = pc /\ CopiesIn(t, running') < CopiesIn(t, running)

\* C14: the export is idempotent: the aggregator run twice on the same store,
\* in whatever order the records come each time, writes the same header and
\* the same data rows as unordered collections, and no step of the aggregator
\* changes the processing set, the finished set or the record mapping.
C14_IdempotentExport ==
    /\ [](\A o1, o2 \in Orderings(DOMAIN courses) :
            SameRows(csv_writer(csv, get_courses, o1),
                     csv_writer(csv_writer(csv, get_courses, o1), get_courses, o2))
            /\ csv_writer(csv, get_courses, o1).rows[1] = Header
            /\ csv_writer(csv_writer(csv, get_courses, o1), get_courses, o2).rows[1] = Header)
    /\ [][\A t \in WatcherFrames :
            (Stepped(t, "get_courses") \/ Stepped(t, "save_to_csv"))
                => <<processing, finished, courses>>' = <<processing, finished, courses>>]_vars

\* an export of two data rows is on disk and a second aggregator run is about
\* to write from a snapshot of the same, unchanged store
C14_Witness ==
    /\ csv.exists /\ Len(csv.rows) = 3
    /\ \E t \in WatcherFrames :
           /\ t.pc = "save_to_csv" /\ t.snap = get_courses
           /\ \E o \in Orderings(DOMAIN t.snap) : SameRows(csv, csv_writer(csv, t.snap, o))


\* the path of a link: an absolute link carries a scheme and a host before it
PathOf(link_url) ==
    IF link_url # << >> /\ Head(link_url) \in {"http:", "https:"}
    THEN SubSeq(link_url, 5, Len(link_url))
    ELSE link_url

\* the segments of the path of a link
PathSegments(link_url) == SelectSeq(split(PathOf(link_url)), LAMBDA part : part # "")

\* the task a link is owed by the segments of its path
TaskOwed(link_url) ==
    LET segments == PathSegments(link_url) IN
    IF Len(segments) < 2 THEN None
    ELSE IF segments[1] = "learn" THEN "load_course"
    ELSE IF segments[1] \in {"specializations", "professional-certificates"}
         THEN "load_and_collect_from_page"
    ELSE None

\* the anchors of the pages whose links are walked
WalkedLinks(url) == {Site(url).hrefs[i] : i \in 1..Len(Site(url).hrefs)}

\* C15: classification and dispatch of a discovered link, relative or
\* absolute: once a root or branch task has walked its page, every link of the
\* page with fewer than two path segments or with another first segment than
\* 'learn' or a branch pattern has been ignored (not in processing, not handed
\* over), every other link has been handed over, and every queued task is
\* the leaf task of a 'learn' link or the branch task of a branch link.
C15_ClassifyAndDispatch ==
    /\ \A u \in finished \cap {Root, B1} : \A h \in WalkedLinks(u) :
           IF TaskOwed(h) = None
           THEN h \notin processing \cup finished /\ ~BagIn(h, dispatched)
           ELSE BagIn(h, dispatched)
    /\ \A m \in CrawlQueued : m.url # Root => m.kind = TaskOwed(m.url)


\* the step taken is one of the executing frame t
StepOf(t) == CopiesIn(t, running') < CopiesIn(t, running)

\* C16: a leaf task never recurses: no step of an executing load_course task
\* adds a url to the processing set or enqueues a task; all it does to the
\* store is to save at most one record, under its own url, and to move its
\* own url from processing to finished.
C16_LeafNeverRecurses ==
    [][\A t \in CrawlFrames :
           (t.kind = "load_course" /\ StepOf(t)) =>
               /\ queue' = queue /\ dispatched' = dispatched
               /\ processing' \subseteq processing
               /\ processing \ processing' \subseteq {t.url}
               /\ finished \subseteq finished'
               /\ finished' \ finished \subseteq {t.url}
               /\ DOMAIN courses \subseteq DOMAIN courses'
               /\ DOMAIN courses' \subseteq DOMAIN courses \cup {t.url}
               /\ \A u \in DOMAIN courses \ {t.url} : courses'[u] = courses[u]]_vars

\* the leaf task of /learn/l1 has saved its record and ended, and the course
\* its page links to has not been registered by anyone
C16_Witness ==
    /\ L1 \in finished /\ L1 \notin processing /\ L1 \in DOMAIN courses
    /\ L2 \in WalkedLinks(L1)
    /\ L2 \notin processing \cup finished /\ ~BagIn(L2, dispatched)


\* C17: a session is seeded at most once per key: whatever triggers arrive
\* before the export exists, the root url is handed to the broker once and at
\* most one watcher/aggregator is queued or executing for the key.
C17_SeededOnce ==
    /\ CopiesIn(Root, dispatched) <= 1
    /\ BagCardinality([m \in {x \in BagToSet(queue) : x.kind = Watcher} |-> queue[m]])
           + BagCardinality([t \in WatcherFrames |-> running[t]]) <= 1


\* the links of its page a crawl task hands to the broker
Children(kind, url) ==
    IF kind = "load_course" THEN {} ELSE {h \in WalkedLinks(url) : Classify(h) # None}

\* the url is registered in the store of the session
Registered(url) == url \in processing \cup finished

\* C18: registration precedes hand-over: the url of every queued or executing
\* crawl task, root and children alike, is in processing or finished; a link
\* whose task is about to be enqueued is already registered; and from the
\* moment a task marks its own url finished, every child it dispatched is in
\* processing or finished.
C18_RegisteredBeforeHandOver ==
    /\ \A m \in CrawlQueued : Registered(m.url)
    /\ \A t \in CrawlFrames :
           /\ Registered(t.url)
           /\ t.pc = "delay" => Registered(Head(t.hrefs))
           /\ t.pc \in {"finish", "srem"} => \A h \in Children(t.kind, t.url) : Registered(h)
    /\ \A t \in WatcherFrames : t.pc = "delay" => Registered(t.url)
    /\ \A u \in BagToSet(dispatched) : Registered(u)

\* the branch task of b1 has marked its url finished and still holds its
\* worker, and both leaves it dispatched are in processing
C18_Witness ==
    /\ \E t \in CrawlFrames : t.url = B1 /\ t.pc = "srem"
    /\ B1 \in finished
    /\ Children("load_and_collect_from_page", B1) = {L1, L2}
    /\ {L1, L2} \subseteq processing


\* the record get_course_data extracts from the page of the url
RecordOf(url) == [category |-> Site(url).label, name |-> Site(url).title]

\* C19: the record mapping holds at most one record per url and only for
\* dispatched urls: whatever number of tasks ran for a url, the mapping holds
\* the one record of its page; every url with a stored record is in
\* processing or finished; and the export never holds two rows for one url.
C19_OneRecordPerUrl ==
    /\ \A u \in DOMAIN courses :
           /\ BagIn(u, dispatched) /\ Registered(u)
           /\ courses[u] = json_dumps(RecordOf(u))
    /\ csv.exists =>
           /\ Len(csv.rows) - 1 <= Cardinality(DOMAIN courses)
           /\ \A u \in Urls : RowCount(csv, Row(RecordOf(u))) <= 1

\* /learn/l1 was dispatched twice and both tasks have ended; the mapping holds
\* its record and the export has one row for it
C19_Witness ==
    /\ CopiesIn(L1, dispatched) = 2 /\ NoCrawlTask /\ failed = {}
    /\ L1 \in DOMAIN courses
    /\ csv.exists /\ RowCount(csv, Row(RecordOf(L1))) = 1


-----------------------------------------------------------------------------
(* The session key: parse_category_name on a category name given as the   *)
(* sequence of its characters.                                             *)

\* longest category name submitted
MaxNameLen == 3

\* the characters of the names: a lower-case and an upper-case letter, a
\* digit, a blank and the dash
Chars == {"a", "B", "1", " ", "-"}
Names == UNION {[1..n -> Chars] : n \in 0..MaxNameLen}

Whitespace == {" "}
LowerCase == {"a", "b"}
Digits == {"1"}

RECURSIVE lstrip(_)
lstrip(s) == IF s # << >> /\ Head(s) \in Whitespace THEN lstrip(Tail(s)) ELSE s

RECURSIVE rstrip(_)
rstrip(s) ==
    IF s # << >> /\ s[Len(s)] \in Whitespace THEN rstrip(SubSeq(s, 1, Len(s) - 1)) ELSE s

\* str.strip()
strip(s) == rstrip(lstrip(s))

\* str.lower()
lower(s) == [i \in 1..Len(s) |-> IF s[i] = "B" THEN "b" ELSE s[i]]

RECURSIVE SubRuns(_, _, _, _)
\* re.sub(r'[^...]+', '-', ...) for the class of characters kept: what is
\* written so far, whether a run is being replaced, the characters left
SubRuns(kept, out, inrun, rest) ==
    IF rest = << >> THEN out
    ELSE IF Head(rest) \in kept THEN SubRuns(kept, Append(out, Head(rest)), FALSE, Tail(rest))
    ELSE IF inrun THEN SubRuns(kept, out, TRUE, Tail(rest))
    ELSE SubRuns(kept, Append(out, "-"), TRUE, Tail(rest))

\* category.strip().lower(), then re.sub(r'[^a-z0-9-]+', '-', category)
parse_category_name(category) ==
    SubRuns(LowerCase \cup Digits \cup {"-"}, << >>, FALSE, lower(strip(category)))

\* a trigger arrives with some category name in its form
KeyInit ==
    /\ name \in Names
    /\ key = << >>
    /\ processing = {} /\ finished = {} /\ courses = << >> /\ csv = NoFile
    /\ queue = EmptyBag /\ running = EmptyBag /\ triggers = 0
    /\ pollpc = "idle" /\ answer = None
    /\ dispatched = EmptyBag /\ ended = {} /\ failed = {} /\ extracted = {}

\* post_category: if not category: abort(400)
post_category_abort ==
    /\ name = << >> /\ answer = None
    /\ answer' = "400"
    /\ UNCHANGED <<processing, finished, courses, csv, queue, running, triggers,
                   pollpc, dispatched, ended, failed, extracted, name, key>>

\* post_category: csv_path = path_to_csv(category), which normalizes the name
post_category_path_to_csv ==
    /\ name # << >> /\ key = << >>
    /\ key' = << parse_category_name(name) >>
    /\ UNCHANGED <<processing, finished, courses, csv, queue, running, triggers,
                   pollpc, answer, dispatched, ended, failed, extracted, name>>

KeyNext == post_category_abort \/ post_category_path_to_csv

\* the derivation of the session key of a trigger, for every name
KeySpec == KeyInit /\ [][KeyNext]_vars

\* the key the name is owed: lower-cased, every maximal run of characters
\* that are neither letters nor digits replaced by one dash
NormalizedKey(category) == SubRuns(LowerCase \cup Digits, << >>, FALSE, lower(category))

\* C20: session key normalization: the key of a category name (here: of a
\* name without blanks at its ends) is the name lower-cased with every maximal
\* run of non-alphanumeric characters replaced by exactly one '-', runs that
\* contain a '-' included.
C20_KeyNormalization ==
    (key # << >> /\ strip(name) = name) => key[1] = NormalizedKey(name)

====
